---- MODULE Spec2Model ----
(***************************************************************************)
(* A model of src/src/platform_se/skyrim_platform/EventsApi.cpp: the       *)
(* Pattern / Handler / Hook classes, the global registry `g`, the callback *)
(* registry (On / Once / SendEvent) and Clear.                             *)
(*                                                                         *)
(* std::string values are sequences of one-character strings.  A           *)
(* std::optional is a record [has |-> FALSE] or [has |-> TRUE, val |-> v]. *)
(* A JsValue is [type |-> "Undefined"] or an object record.  A script      *)
(* callback is arbitrary script code: what one invocation does (rewrite    *)
(* the event name, write to storage, register a callback, throw) is an     *)
(* input of the step that invokes it.                                      *)
(*                                                                         *)
(* g_pool and g_taskQueue are declared extern (lines 18-19) and defined    *)
(* outside this file: the executor is modelled from spec.md sections 5 and *)
(* 6 (one script thread takes one unit of work at a time).                 *)
(***************************************************************************)
EXTENDS Integers, Sequences, FiniteSets, TLC

\* ------------------------------------------------------------- bounds
\* Most handlers one hook holds (hook.add is refused by the model beyond it).
MaxHandlers == 2
\* Most tasks waiting in g_taskQueue (a call that would add one waits).
MaxTasks == 1
\* Most callback registrations (On / Once) in one session.
MaxRegs == 3

\* Native threads calling the hooks.
Threads == {1, 2}
\* The selfId arguments the native call sites pass.
SelfIds == {1, 2}
\* The event names that travel through a hook.
Names == {<<"a">>, <<"b">>}
\* What an enter callback may put into its storage Map.
StorageVals == {"x"}

None == [has |-> FALSE]
Some(v) == [has |-> TRUE, val |-> v]

Undefined == [type |-> "Undefined"]

\* ------------------------------------------------------------- Pattern

\* std::count(str.begin(), str.end(), '*')
CountStar(str) == Cardinality({i \in 1..Len(str) : str[i] = "*"})

\* str.find('*'), 0-based; only used when count = 1.
FindStar(str) == (CHOOSE i \in 1..Len(str) : str[i] = "*") - 1

\* Pattern::Parse with the results of lines 45-46 and 49-50 exchanged.
ParseSwapped(str) ==
  IF CountStar(str) = 0 THEN [ok |-> TRUE, pattern |-> [type |-> "Exact", str |-> str]]
  ELSE IF CountStar(str) > 1 THEN [ok |-> FALSE]
  ELSE IF FindStar(str) = 0
    THEN [ok |-> TRUE, pattern |-> [type |-> "StartsWith", str |-> SubSeq(str, 2, Len(str))]]
  ELSE IF FindStar(str) = Len(str) - 1
    THEN [ok |-> TRUE, pattern |-> [type |-> "EndsWith", str |-> SubSeq(str, 1, Len(str) - 1)]]
  ELSE [ok |-> FALSE]

\* Pattern::Parse: [ok |-> TRUE, pattern |-> ...] or [ok |-> FALSE] (it threw).
Parse(str) ==
  IF CountStar(str) = 0 THEN [ok |-> TRUE, pattern |-> [type |-> "Exact", str |-> str]]
  ELSE IF CountStar(str) > 1 THEN [ok |-> FALSE]
  ELSE IF FindStar(str) = 0
    THEN [ok |-> TRUE, pattern |-> [type |-> "EndsWith", str |-> SubSeq(str, 2, Len(str))]]
  ELSE IF FindStar(str) = Len(str) - 1
    THEN [ok |-> TRUE, pattern |-> [type |-> "StartsWith", str |-> SubSeq(str, 1, Len(str) - 1)]]
  ELSE [ok |-> FALSE]

\* ------------------------------------------------------------- Handler

\* Handler::Matches with the comparisons of lines 77 and 80 made non-strict,
\* so that both bounds exclude their own value.
MatchesExclusive(h, selfId, eventName) ==
  IF h.minSelfId.has /\ selfId <= h.minSelfId.val THEN FALSE
  ELSE IF h.maxSelfId.has /\ selfId >= h.maxSelfId.val THEN FALSE
  ELSE IF h.pattern.has THEN
    LET p == h.pattern.val IN
    CASE p.type = "Exact" -> eventName = p.str
      [] p.type = "StartsWith" ->
           Len(eventName) >= Len(p.str)
           /\ SubSeq(eventName, 1, Len(p.str)) = p.str
      [] p.type = "EndsWith" ->
           Len(eventName) >= Len(p.str)
           /\ SubSeq(eventName, Len(eventName) - Len(p.str) + 1, Len(eventName)) = p.str
  ELSE TRUE

\* Handler::Matches on the immutable filter fields of handler h.
Matches(h, selfId, eventName) ==
  IF h.minSelfId.has /\ selfId < h.minSelfId.val THEN FALSE
  ELSE IF h.maxSelfId.has /\ selfId > h.maxSelfId.val THEN FALSE
  ELSE IF h.pattern.has THEN
    LET p == h.pattern.val IN
    CASE p.type = "Exact" -> eventName = p.str
      [] p.type = "StartsWith" ->
           Len(eventName) >= Len(p.str)
           /\ SubSeq(eventName, 1, Len(p.str)) = p.str
      [] p.type = "EndsWith" ->
           Len(eventName) >= Len(p.str)
           /\ SubSeq(eventName, Len(eventName) - Len(p.str) + 1, Len(eventName)) = p.str
  ELSE TRUE

\* Handler::PerThread as default-constructed by perThread[owningThread].
PerThread == [storage |-> Undefined, context |-> Undefined, matchesCondition |-> FALSE]

\* The Handler constructor: the filter and an empty perThread map.
Handler(minSelfId, maxSelfId, pattern) ==
  [minSelfId |-> minSelfId, maxSelfId |-> maxSelfId, pattern |-> pattern,
   perThread |-> <<>>]

\* h.perThread[owningThread]: the entry, default-constructed when absent.
PerThreadAt(h, t) == IF t \in DOMAIN h.perThread THEN h.perThread[t] ELSE PerThread

\* perThread as it would be if the map were not keyed by thread: the entry e
\* replaces the entry of every thread that has one.
PerThreadPutShared(h, t, e) ==
  [h EXCEPT !.perThread = [u \in (DOMAIN h.perThread) \cup {t} |-> e]]

\* perThread with the entry of t set to e (inserted when absent).
PerThreadPut(h, t, e) ==
  [h EXCEPT !.perThread = [u \in (DOMAIN h.perThread) \cup {t} |->
                             IF u = t THEN e ELSE h.perThread[u]]]

\* h.perThread.erase(owningThread)
PerThreadErase(h, t) ==
  [h EXCEPT !.perThread = [u \in (DOMAIN h.perThread) \ {t} |-> h.perThread[u]]]

\* JsValue::SetProperty on an object.
SetProperty(obj, key, value) ==
  [obj EXCEPT !.props = [k \in (DOMAIN obj.props) \cup {key} |->
                           IF k = key THEN value ELSE obj.props[k]]]

\* ------------------------------------------------------------- Hook

Hooks == {"sendAnimationEvent", "sendPapyrusEvent"}

\* The Hook constructor arguments of EventsGlobalState().
eventNameVariableName(hook) ==
  IF hook = "sendAnimationEvent" THEN "animEventName" ELSE "papyrusEventName"

succeededVariableName(hook) ==
  IF hook = "sendAnimationEvent" THEN Some("animationSucceeded") ELSE None


\* JsValue::Object() and the standard Map constructed by PrepareContext.
Object == [type |-> "Object", props |-> <<>>]

NewMap == [type |-> "Object", map |-> {}]

\* Hook::PrepareContext on one PerThread entry.
PrepareContext(e) ==
  LET context == IF e.context.type # "Object" THEN Object ELSE e.context
  IN IF e.storage.type # "Object"
       THEN [e EXCEPT !.storage = NewMap,
                      !.context = SetProperty(context, "storage", "Map")]
       ELSE [e EXCEPT !.context = context]

\* Hook::ClearContextStorage: Map.prototype.clear on the entry's storage.
ClearContextStorage(e) == [e EXCEPT !.storage.map = {}]

\* What one invocation of an enter callback does: the value it leaves in the
\* event-name property, what it adds to storage, and whether it throws.
EnterBehaviours == [name : Names, write : SUBSET StorageVals, throws : BOOLEAN]

\* What one invocation of a leave callback does.
LeaveBehaviours == [throws : BOOLEAN]

\* HandleEnter as it would be without the read-back of lines 216-217.
EventNameKept(eventName, context, hook) == eventName

\* Lines 216-217: the new value of eventName, read back from the context.
EventNameAfter(eventName, context, hook) == context.props[eventNameVariableName(hook)]

\* The state HandleEnter / HandleLeave thread through their loop over handlers:
\* the handlers (with their perThread maps), the eventName reference, whether
\* an exception left the loop, and the callbacks invoked so far.
LoopState(hs, eventName) ==
  [handlers |-> hs, eventName |-> eventName, threw |-> FALSE, calls |-> <<>>]

\* One iteration of the loop of Hook::HandleEnter (lines 203-217) for handler
\* i; b is what the enter callback does if this iteration invokes it.
HandleEnterBody(st, i, owningThread, selfId, hook, b) ==
  LET h == st.handlers[i]
      perThread == [PerThreadAt(h, owningThread) EXCEPT
                      !.matchesCondition = Matches(h, selfId, st.eventName)]
  IN IF ~perThread.matchesCondition
       THEN [st EXCEPT !.handlers[i] = PerThreadPut(h, owningThread, perThread)]
       ELSE
         LET prepared == ClearContextStorage(PrepareContext(perThread))
             context == SetProperty(SetProperty(prepared.context, "selfId", selfId),
                                    eventNameVariableName(hook), st.eventName)
             \* h.enter.Call: the script callback acts on the context it is given
             after == [prepared EXCEPT
                         !.context = SetProperty(context, eventNameVariableName(hook),
                                                 b.name),
                         !.storage.map = @ \cup b.write]
             call == [kind |-> "enter", handler |-> i,
                      nameIn |-> context.props[eventNameVariableName(hook)],
                      nameOut |-> after.context.props[eventNameVariableName(hook)],
                      storageAtStart |-> prepared.storage.map,
                      storage |-> after.storage.map,
                      threw |-> b.throws]
         IN [handlers |-> [st.handlers EXCEPT ![i] = PerThreadPut(h, owningThread, after)],
             eventName |-> IF b.throws THEN st.eventName
                           ELSE EventNameAfter(st.eventName, after.context, hook),
             threw |-> b.throws,
             calls |-> Append(st.calls, call)]

\* The behaviours to distinguish in iteration i: those of B if the enter
\* callback of handler i is invoked, any single one if it is not.
EnterChoices(st, i, selfId, B) ==
  IF Matches(st.handlers[i], selfId, st.eventName) THEN B ELSE {CHOOSE b \in B : TRUE}

RECURSIVE HandleEnterFrom(_, _, _, _, _, _)
HandleEnterFrom(st, i, owningThread, selfId, hook, B) ==
  IF i > Len(st.handlers) \/ st.threw THEN {st}
  ELSE UNION { HandleEnterFrom(HandleEnterBody(st, i, owningThread, selfId, hook, b),
                               i + 1, owningThread, selfId, hook, B)
               : b \in EnterChoices(st, i, selfId, B) }

\* Hook::HandleEnter over the handlers hs: the possible final loop states,
\* one for each way the invoked enter callbacks may behave within B.
HandleEnter(hs, owningThread, selfId, eventName, hook, B) ==
  HandleEnterFrom(LoopState(hs, eventName), 1, owningThread, selfId, hook, B)

\* The iteration of Hook::HandleLeave as it would be without the test of
\* lines 248-250.
HandleLeaveBodyNoSkip(st, i, owningThread, succeeded, hook, b) ==
  LET h == st.handlers[i]
  IN IF owningThread \notin DOMAIN h.perThread
       THEN [st EXCEPT !.threw = TRUE]
     ELSE
       LET prepared == PrepareContext(h.perThread[owningThread])
           after == IF succeededVariableName(hook).has
                      THEN [prepared EXCEPT !.context =
                              SetProperty(@, succeededVariableName(hook).val, succeeded)]
                      ELSE prepared
           call == [kind |-> "leave", handler |-> i,
                    context |-> after.context,
                    storage |-> after.storage.map,
                    threw |-> b.throws]
       IN [st EXCEPT
             !.handlers[i] = IF b.throws
                               THEN PerThreadPut(h, owningThread, after)
                               ELSE PerThreadErase(h, owningThread),
             !.threw = b.throws,
             !.calls = Append(@, call)]

\* One iteration of the loop of Hook::HandleLeave (lines 247-260) for handler
\* i; b is what the leave callback does if this iteration invokes it.
HandleLeaveBody(st, i, owningThread, succeeded, hook, b) ==
  LET h == st.handlers[i]
  IN IF owningThread \notin DOMAIN h.perThread
       THEN [st EXCEPT !.threw = TRUE]          \* perThread.at throws std::out_of_range
     ELSE IF ~h.perThread[owningThread].matchesCondition
       THEN st
     ELSE
       LET prepared == PrepareContext(h.perThread[owningThread])
           after == IF succeededVariableName(hook).has
                      THEN [prepared EXCEPT !.context =
                              SetProperty(@, succeededVariableName(hook).val, succeeded)]
                      ELSE prepared
           call == [kind |-> "leave", handler |-> i,
                    context |-> after.context,
                    storage |-> after.storage.map,
                    threw |-> b.throws]
       IN [st EXCEPT
             !.handlers[i] = IF b.throws
                               THEN PerThreadPut(h, owningThread, after)
                               ELSE PerThreadErase(h, owningThread),
             !.threw = b.throws,
             !.calls = Append(@, call)]

LeaveChoices(st, i, owningThread, B) ==
  IF /\ owningThread \in DOMAIN st.handlers[i].perThread
     /\ st.handlers[i].perThread[owningThread].matchesCondition
    THEN B ELSE {CHOOSE b \in B : TRUE}

RECURSIVE HandleLeaveFrom(_, _, _, _, _, _)
HandleLeaveFrom(st, i, owningThread, succeeded, hook, B) ==
  IF i > Len(st.handlers) \/ st.threw THEN {st}
  ELSE UNION { HandleLeaveFrom(HandleLeaveBody(st, i, owningThread, succeeded, hook, b),
                               i + 1, owningThread, succeeded, hook, B)
               : b \in LeaveChoices(st, i, owningThread, B) }

\* Hook::HandleLeave over the handlers hs: the possible final loop states.
HandleLeave(hs, owningThread, succeeded, hook, B) ==
  HandleLeaveFrom(LoopState(hs, <<>>), 1, owningThread, succeeded, hook, B)

\* The task `[err] { throw std::runtime_error(err); }` handed to g_taskQueue
\* (the text of err is not modelled).
FailingTask == [kind |-> "throw"]

\* The lambda f of Hook::Enter as it would be without the test of line 162.
EnterTryNoGuard(hs, inProgress, hook, owningThread, selfId, eventName, B) ==
  {[inProgressThreads |-> inProgress \cup {owningThread},
    handlers |-> r.handlers, eventName |-> r.eventName,
    calls |-> r.calls, cause |-> IF r.threw THEN "callback" ELSE "none",
    tasks |-> IF r.threw THEN <<FailingTask>> ELSE <<>>,
    escaped |-> FALSE]
   : r \in HandleEnter(hs, owningThread, selfId, eventName, hook, B)}

\* The lambda f of Hook::Enter as it would be without the try / catch of
\* lines 161-170: an exception of HandleEnter leaves f.
EnterTryUncaught(hs, inProgress, hook, owningThread, selfId, eventName, B) ==
  IF owningThread \in inProgress
    THEN {[inProgressThreads |-> inProgress, handlers |-> hs, eventName |-> eventName,
           calls |-> <<>>, cause |-> "already processing",
           tasks |-> <<>>, escaped |-> TRUE]}
    ELSE {[inProgressThreads |-> inProgress \cup {owningThread},
           handlers |-> r.handlers, eventName |-> r.eventName,
           calls |-> r.calls, cause |-> IF r.threw THEN "callback" ELSE "none",
           tasks |-> <<>>, escaped |-> r.threw]
          : r \in HandleEnter(hs, owningThread, selfId, eventName, hook, B)}

\* The body of the lambda f of Hook::Enter (lines 160-171) as a function of the
\* hook's state: the possible outcomes, each with the new in-progress set,
\* handlers and eventName, the callbacks invoked, why the protocol failed, the
\* tasks handed to g_taskQueue.AddTask, and whether an exception leaves f.
EnterTry(hs, inProgress, hook, owningThread, selfId, eventName, B) ==
  IF owningThread \in inProgress
    THEN {[inProgressThreads |-> inProgress, handlers |-> hs, eventName |-> eventName,
           calls |-> <<>>, cause |-> "already processing",
           tasks |-> <<FailingTask>>, escaped |-> FALSE]}
    ELSE {[inProgressThreads |-> inProgress \cup {owningThread},
           handlers |-> r.handlers, eventName |-> r.eventName,
           calls |-> r.calls, cause |-> IF r.threw THEN "callback" ELSE "none",
           tasks |-> IF r.threw THEN <<FailingTask>> ELSE <<>>,
           escaped |-> FALSE]
          : r \in HandleEnter(hs, owningThread, selfId, eventName, hook, B)}

\* Why HandleLeave threw, if it did: the last callback invoked threw, or
\* perThread.at found no entry.
LeaveCause(r) ==
  IF ~r.threw THEN "none"
  ELSE IF r.calls # <<>> /\ r.calls[Len(r.calls)].threw THEN "callback"
  ELSE "out_of_range"

\* The lambda f of Hook::Leave as it would be without the test of line 185.
LeaveTryNoGuard(hs, inProgress, hook, owningThread, succeeded, B) ==
  {[inProgressThreads |-> inProgress \ {owningThread},
    handlers |-> r.handlers,
    calls |-> r.calls, cause |-> LeaveCause(r),
    tasks |-> IF r.threw THEN <<FailingTask>> ELSE <<>>,
    escaped |-> FALSE]
   : r \in HandleLeave(hs, owningThread, succeeded, hook, B)}

\* The lambda f of Hook::Leave as it would be if the erase of line 187 came
\* after HandleLeave: a failing leave callback leaves the thread in progress.
LeaveTryEraseLast(hs, inProgress, hook, owningThread, succeeded, B) ==
  IF owningThread \notin inProgress
    THEN {[inProgressThreads |-> inProgress, handlers |-> hs,
           calls |-> <<>>, cause |-> "not processing",
           tasks |-> <<FailingTask>>, escaped |-> FALSE]}
    ELSE {[inProgressThreads |-> IF r.threw THEN inProgress
                                 ELSE inProgress \ {owningThread},
           handlers |-> r.handlers,
           calls |-> r.calls, cause |-> LeaveCause(r),
           tasks |-> IF r.threw THEN <<FailingTask>> ELSE <<>>,
           escaped |-> FALSE]
          : r \in HandleLeave(hs, owningThread, succeeded, hook, B)}

\* The body of the lambda f of Hook::Leave (lines 183-195).
LeaveTry(hs, inProgress, hook, owningThread, succeeded, B) ==
  IF owningThread \notin inProgress
    THEN {[inProgressThreads |-> inProgress, handlers |-> hs,
           calls |-> <<>>, cause |-> "not processing",
           tasks |-> <<FailingTask>>, escaped |-> FALSE]}
    ELSE {[inProgressThreads |-> inProgress \ {owningThread},
           handlers |-> r.handlers,
           calls |-> r.calls, cause |-> LeaveCause(r),
           tasks |-> IF r.threw THEN <<FailingTask>> ELSE <<>>,
           escaped |-> FALSE]
          : r \in HandleLeave(hs, owningThread, succeeded, hook, B)}

\* ------------------------------------------------------------- registry

\* The set `events` of AddCallback (lines 458-482).
events ==
  {"tick", "update", "effectStart", "effectFinish", "magicEffectApply", "equip",
   "unequip", "hit", "containerChanged", "deathStart", "deathEnd", "loadGame",
   "combatState", "reset", "scriptInit", "trackedStats", "uniqueIdChange",
   "switchRaceComplete", "cellFullyLoaded", "grabRelease", "lockChanged",
   "moveAttachDetach", "objectLoaded", "waitStop", "activate"}

\* The event names scripts and producers use in the model: two recognised ones
\* and one that is not in `events`.
EventInputs == {"tick", "update", "bogus"}

\* The keys the Callbacks maps are modelled over (an absent key and an empty
\* vector behave alike in every use the file makes of the maps).
MapKeys == EventInputs \cap events

EmptyCallbacks == [n \in MapKeys |-> <<>>]


\* AddCallback with the choice of line 487 inverted: On appends to the one-shot
\* list and Once to the persistent one.
AddCallbackSwapped(cbs, once, eventName, callback, isOnce) ==
  IF eventName \notin events
    THEN [threw |-> TRUE, callbacks |-> cbs, callbacksOnce |-> once]
  ELSE IF ~isOnce
    THEN [threw |-> FALSE, callbacks |-> cbs,
          callbacksOnce |-> [once EXCEPT ![eventName] = Append(@, callback)]]
    ELSE [threw |-> FALSE, callbacksOnce |-> once,
          callbacks |-> [cbs EXCEPT ![eventName] = Append(@, callback)]]

\* AddCallback (lines 451-490) on the two maps: callback is appended to the
\* list of eventName in callbacksOnce (isOnce) or callbacks, or it throws.
AddCallback(cbs, once, eventName, callback, isOnce) ==
  IF eventName \notin events
    THEN [threw |-> TRUE, callbacks |-> cbs, callbacksOnce |-> once]
  ELSE IF isOnce
    THEN [threw |-> FALSE, callbacks |-> cbs,
          callbacksOnce |-> [once EXCEPT ![eventName] = Append(@, callback)]]
    ELSE [threw |-> FALSE, callbacksOnce |-> once,
          callbacks |-> [cbs EXCEPT ![eventName] = Append(@, callback)]]

\* What one invocation of a registered callback does: nothing, throw, or call
\* on(eventName, f) / once(eventName, f) with a new function f.
CallbackBehaviours ==
  [do : {"nothing", "throw"}, eventName : {"tick"}]
    \cup [do : {"On", "Once"}, eventName : MapKeys]

\* The arguments scripts pass to hook.add: args[2], args[3] (a Number or not)
\* and args[4] (a String or not).
AddArgs ==
  { <<None, None, None>>,
    <<Some(2), None, None>>,
    <<None, Some(1), Some(<<"a">>)>>,
    <<None, None, Some(<<"*", "b">>)>>,
    <<None, None, Some(<<"a", "*", "b">>)>> }

\* ------------------------------------------------------------- state

VARIABLES
  handlers,           \* [Hooks -> Seq of Handler]: g.<hook>->handlers
  inProgressThreads,  \* [Hooks -> SUBSET Threads]: g.<hook>->inProgressThreads
  callbacks,          \* g.callbacks: event name -> Seq of callbacks
  callbacksOnce,      \* g.callbacksOnce
  pc,                 \* [Threads -> "idle" | "waiting" | "aborted"]: the native callers
  eventNameRef,       \* [Threads -> Names]: the caller's std::string& argument
  poolQueue,          \* work pushed to g_pool and not yet started
  taskQueue,          \* tasks added to g_taskQueue and not yet run
  executing,          \* the units of handler / callback logic being executed
  dispatch,           \* the locals of the SendEvent / CallCalbacks being executed
  regs,               \* history: every callback registered, in order
  inPass,             \* history: callbacks registered since the running pass began
  last,               \* history: what the last completed unit did
  entered,            \* history: [Hooks -> threads whose last completed call was Enter]
  pairEnter           \* history: per thread, the enter callbacks of its last accepted Enter

vars == <<handlers, inProgressThreads, callbacks, callbacksOnce, pc, eventNameRef,
          poolQueue, taskQueue, executing, dispatch, regs, inPass, last, entered,
          pairEnter>>

hookVars == <<handlers, inProgressThreads>>
registryVars == <<callbacks, callbacksOnce, dispatch, regs, inPass>>
pairVars == <<entered, pairEnter>>

NoDispatch == [active |-> FALSE]

\* EventsGlobalState(): two hooks without handlers, two empty maps.
Init ==
  /\ handlers = [h \in Hooks |-> <<>>]
  /\ inProgressThreads = [h \in Hooks |-> {}]
  /\ callbacks = EmptyCallbacks
  /\ callbacksOnce = EmptyCallbacks
  /\ pc = [t \in Threads |-> "idle"]
  /\ eventNameRef \in [Threads -> {<<"a">>}]
  /\ poolQueue = <<>>
  /\ taskQueue = <<>>
  /\ executing = {}
  /\ dispatch = NoDispatch
  /\ regs = <<>>
  /\ inPass = {}
  /\ last = [op |-> "none"]
  /\ entered = [h \in Hooks |-> {}]
  /\ pairEnter = [t \in Threads |-> <<>>]

\* ------------------------------------------------------------- native threads

\* Hook::Enter as it would be without the search of lines 143-152: the
\* fire-and-forget hook adds its task whether a handler matches or not.
EnterAlwaysQueues(t, hook, selfId, eventName) ==
  /\ pc[t] = "idle"
  /\ eventNameRef' = [eventNameRef EXCEPT ![t] = eventName]
  /\ IF hook = "sendPapyrusEvent"
       THEN /\ taskQueue' = Append(taskQueue,
                           [kind |-> "HandleEnter", hook |-> hook, owningThread |-> t,
                            selfId |-> selfId, eventName |-> eventName])
            /\ last' = [op |-> "EnterCall", hook |-> hook, thread |-> t,
                        selfId |-> selfId, eventName |-> eventName,
                        tasks |-> Len(taskQueue') - Len(taskQueue)]
            /\ UNCHANGED <<pc, poolQueue>>
       ELSE /\ poolQueue' = Append(poolQueue,
                  [op |-> "Enter", hook |-> hook, owningThread |-> t, selfId |-> selfId])
            /\ pc' = [pc EXCEPT ![t] = "waiting"]
            /\ UNCHANGED <<taskQueue, last>>
  /\ UNCHANGED <<hookVars, registryVars, pairVars, executing>>

\* Hook::Enter as it would be without the branch of lines 141-158: the
\* fire-and-forget hook takes the blocking path.
EnterAlwaysBlocks(t, hook, selfId, eventName) ==
  /\ pc[t] = "idle"
  /\ eventNameRef' = [eventNameRef EXCEPT ![t] = eventName]
  /\ poolQueue' = Append(poolQueue,
        [op |-> "Enter", hook |-> hook, owningThread |-> t, selfId |-> selfId])
  /\ pc' = [pc EXCEPT ![t] = "waiting"]
  /\ UNCHANGED <<hookVars, registryVars, pairVars, executing, taskQueue, last>>

\* Hook::Enter as it would be if the native thread ran f itself instead of
\* handing it to g_pool (line 172).
EnterOnCallingThread(t, hook, selfId, eventName) ==
  /\ pc[t] = "idle"
  /\ eventNameRef' = [eventNameRef EXCEPT ![t] = eventName]
  /\ IF hook = "sendPapyrusEvent"
       THEN /\ IF \E i \in 1..Len(handlers[hook]) :
                      Matches(handlers[hook][i], selfId, eventName)
                 THEN /\ taskQueue' = Append(taskQueue,
                           [kind |-> "HandleEnter", hook |-> hook, owningThread |-> t,
                            selfId |-> selfId, eventName |-> eventName])
                 ELSE UNCHANGED taskQueue
            /\ last' = [op |-> "EnterCall", hook |-> hook, thread |-> t,
                        selfId |-> selfId, eventName |-> eventName,
                        tasks |-> Len(taskQueue') - Len(taskQueue)]
            /\ UNCHANGED <<pc, executing>>
       ELSE /\ executing' = executing \cup
                  {[op |-> "Enter", hook |-> hook, owningThread |-> t, selfId |-> selfId]}
            /\ pc' = [pc EXCEPT ![t] = "waiting"]
            /\ UNCHANGED <<taskQueue, last>>
  /\ UNCHANGED <<hookVars, registryVars, pairVars, poolQueue>>

\* Hook::Enter (lines 137-173) up to the hand-over: thread t calls
\* g.<hook>->Enter(selfId, eventName).
Enter(t, hook, selfId, eventName) ==
  /\ pc[t] = "idle"
  /\ eventNameRef' = [eventNameRef EXCEPT ![t] = eventName]
  /\ IF hook = "sendPapyrusEvent"
       THEN /\ IF \E i \in 1..Len(handlers[hook]) :
                      Matches(handlers[hook][i], selfId, eventName)
                 THEN /\ taskQueue' = Append(taskQueue,
                           [kind |-> "HandleEnter", hook |-> hook, owningThread |-> t,
                            selfId |-> selfId, eventName |-> eventName])
                 ELSE UNCHANGED taskQueue
            /\ last' = [op |-> "EnterCall", hook |-> hook, thread |-> t,
                        selfId |-> selfId, eventName |-> eventName,
                        tasks |-> Len(taskQueue') - Len(taskQueue)]
            /\ UNCHANGED <<pc, poolQueue>>
       ELSE /\ poolQueue' = Append(poolQueue,
                  [op |-> "Enter", hook |-> hook, owningThread |-> t, selfId |-> selfId])
            /\ pc' = [pc EXCEPT ![t] = "waiting"]
            /\ UNCHANGED <<taskQueue, last>>
  /\ UNCHANGED <<hookVars, registryVars, pairVars, executing>>

\* Hook::Leave (lines 175-197) up to the hand-over.
Leave(t, hook, succeeded) ==
  /\ pc[t] = "idle"
  /\ IF hook = "sendPapyrusEvent"
       THEN UNCHANGED <<pc, poolQueue>>
       ELSE /\ poolQueue' = Append(poolQueue,
                  [op |-> "Leave", hook |-> hook, owningThread |-> t,
                   succeeded |-> succeeded])
            /\ pc' = [pc EXCEPT ![t] = "waiting"]
  /\ UNCHANGED <<hookVars, registryVars, pairVars, eventNameRef, taskQueue, executing,
                 last>>


\* ------------------------------------------------------------- executor

\* The script thread is free: it executes no unit.
ScriptIdle == executing = {}

\* The pool's one worker starts the oldest pushed work.
PoolRun ==
  /\ ScriptIdle
  /\ poolQueue # <<>>
  /\ executing' = {Head(poolQueue)}
  /\ poolQueue' = Tail(poolQueue)
  /\ last' = [op |-> "Start"]
  /\ UNCHANGED <<hookVars, registryVars, pairVars, pc, eventNameRef, taskQueue>>

\* The script thread starts the oldest task of g_taskQueue.
TaskRun ==
  /\ ScriptIdle
  /\ taskQueue # <<>>
  /\ executing' = {[op |-> "Task", task |-> Head(taskQueue)]}
  /\ taskQueue' = Tail(taskQueue)
  /\ last' = [op |-> "Start"]
  /\ UNCHANGED <<hookVars, registryVars, pairVars, pc, eventNameRef, poolQueue>>

\* ------------------------------------------------------------- units of work

\* The lambda f of Hook::Enter runs to its end and the caller's wait() returns;
\* B is what the enter callbacks may do.
EnterF(w, B) ==
  /\ w \in executing
  /\ w.op = "Enter"
  /\ \E r \in EnterTry(handlers[w.hook], inProgressThreads[w.hook], w.hook,
                          w.owningThread, w.selfId, eventNameRef[w.owningThread], B) :
       LET t == w.owningThread
           was == t \in inProgressThreads[w.hook]
       IN /\ handlers' = [handlers EXCEPT ![w.hook] = r.handlers]
          /\ inProgressThreads' = [inProgressThreads EXCEPT ![w.hook] = r.inProgressThreads]
          /\ eventNameRef' = [eventNameRef EXCEPT ![t] = r.eventName]
          /\ taskQueue' = taskQueue \o r.tasks
          /\ pc' = [pc EXCEPT ![t] = IF r.escaped THEN "aborted" ELSE "idle"]
          /\ last' = [op |-> "Enter", hook |-> w.hook, thread |-> t, selfId |-> w.selfId,
                      was |-> was, cause |-> r.cause, calls |-> r.calls,
                      tasks |-> Len(taskQueue') - Len(taskQueue),
                      nameIn |-> eventNameRef[t], nameOut |-> eventNameRef'[t]]
          /\ entered' = [entered EXCEPT ![w.hook] = @ \cup {t}]
          /\ pairEnter' = IF was THEN pairEnter
                          ELSE [pairEnter EXCEPT ![t] =
                                  [i \in {r.calls[k].handler : k \in 1..Len(r.calls)} |->
                                     r.calls[CHOOSE k \in 1..Len(r.calls) :
                                               r.calls[k].handler = i].storage]]
  /\ executing' = executing \ {w}
  /\ UNCHANGED <<registryVars, poolQueue>>

\* The lambda f of Hook::Leave runs to its end and the caller's wait() returns.
LeaveF(w, B) ==
  /\ w \in executing
  /\ w.op = "Leave"
  /\ \E r \in LeaveTry(handlers[w.hook], inProgressThreads[w.hook], w.hook,
                          w.owningThread, w.succeeded, B) :
       LET t == w.owningThread
       IN /\ handlers' = [handlers EXCEPT ![w.hook] = r.handlers]
          /\ inProgressThreads' = [inProgressThreads EXCEPT ![w.hook] = r.inProgressThreads]
          /\ taskQueue' = taskQueue \o r.tasks
          /\ pc' = [pc EXCEPT ![t] = IF r.escaped THEN "aborted" ELSE "idle"]
          /\ last' = [op |-> "Leave", hook |-> w.hook, thread |-> t,
                      succeeded |-> w.succeeded,
                      was |-> t \in inProgressThreads[w.hook],
                      cause |-> r.cause, calls |-> r.calls,
                      tasks |-> Len(taskQueue') - Len(taskQueue)]
          /\ entered' = [entered EXCEPT ![w.hook] = @ \ {t}]
  /\ executing' = executing \ {w}
  /\ UNCHANGED <<registryVars, poolQueue, eventNameRef, pairEnter>>

\* A task `throw std::runtime_error(err)` runs: the error reaches the
\* executor's error report.
ThrowTask(w) ==
  /\ w \in executing
  /\ w.op = "Task"
  /\ w.task.kind = "throw"
  /\ last' = [op |-> "Task", kind |-> "throw", threw |-> TRUE]
  /\ executing' = executing \ {w}
  /\ UNCHANGED <<hookVars, registryVars, pairVars, pc, eventNameRef, poolQueue, taskQueue>>

\* The task of lines 154-157 runs: HandleEnter on a copy s of the event name.
HandleEnterTask(w, B) ==
  /\ w \in executing
  /\ w.op = "Task"
  /\ w.task.kind = "HandleEnter"
  /\ \E r \in HandleEnter(handlers[w.task.hook], w.task.owningThread, w.task.selfId,
                             w.task.eventName, w.task.hook, B) :
          /\ handlers' = [handlers EXCEPT ![w.task.hook] = r.handlers]
          /\ last' = [op |-> "Task", kind |-> "HandleEnter", hook |-> w.task.hook,
                      thread |-> w.task.owningThread, calls |-> r.calls,
                      threw |-> r.threw]
  /\ executing' = executing \ {w}
  /\ UNCHANGED <<inProgressThreads, registryVars, pairVars, pc, eventNameRef, poolQueue,
                 taskQueue>>


\* ------------------------------------------------------------- script code

\* The function hook.add of CreateHookApi (lines 414-436), called by script
\* code with args[2..4] = minArg, maxArg, patternArg.
HookAdd(hook, minArg, maxArg, patternArg) ==
  /\ ScriptIdle
  /\ LET parsed == IF patternArg.has THEN Parse(patternArg.val) ELSE [ok |-> TRUE]
         pattern == IF patternArg.has THEN Some(parsed.pattern) ELSE None
     IN /\ handlers' = IF parsed.ok
                         THEN [handlers EXCEPT ![hook] =
                                 Append(@, Handler(minArg, maxArg, pattern))]
                         ELSE handlers
        /\ last' = [op |-> "HookAdd", hook |-> hook, threw |-> ~parsed.ok,
                    args |-> <<minArg, maxArg, patternArg>>]
  /\ UNCHANGED <<inProgressThreads, registryVars, pairVars, pc, eventNameRef, poolQueue,
                 taskQueue, executing>>

\* History of one registration: the arguments, who made it ("script" outside
\* any dispatch, or a "persistent" / "once" callback during one), how often
\* the callback was invoked (counted up to 2), and whether a SendEvent of its
\* event name that began after the registration has entered its second
\* CallCalbacks and ended, and whether Clear was called since.
Registration(eventName, isOnce, by) ==
  [eventName |-> eventName, isOnce |-> isOnce, by |-> by, invoked |-> 0,
   passed |-> FALSE, cleared |-> FALSE]

\* regs when the running SendEvent ends, by return or by exception.
PassEnded(rs) ==
  [i \in DOMAIN rs |->
     IF dispatch.isOnce /\ rs[i].eventName = dispatch.eventName /\ i \notin inPass
       THEN [rs[i] EXCEPT !.passed = TRUE] ELSE rs[i]]

\* EventsApi::On / EventsApi::Once (lines 493-501) called by script code
\* outside any dispatch, with a new function as the callback.
OnOrOnce(eventName, isOnce) ==
  /\ ScriptIdle
  /\ LET r == AddCallback(callbacks, callbacksOnce, eventName, Len(regs) + 1, isOnce)
     IN /\ callbacks' = r.callbacks
        /\ callbacksOnce' = r.callbacksOnce
        /\ regs' = IF r.threw THEN regs
                   ELSE Append(regs, Registration(eventName, isOnce, "script"))
        /\ last' = [op |-> "AddCallback", eventName |-> eventName, isOnce |-> isOnce,
                    threw |-> r.threw]
  /\ UNCHANGED <<hookVars, pairVars, pc, eventNameRef, poolQueue, taskQueue, executing,
                 dispatch, inPass>>

\* CallCalbacks as it would be without the clear of line 297.
CallCalbacksCopyKeep(eventName, isOnce) ==
  /\ dispatch' = [active |-> TRUE, eventName |-> eventName, isOnce |-> isOnce,
                  callbacks |-> IF isOnce THEN callbacksOnce[eventName]
                                ELSE callbacks[eventName],
                  next |-> 1]
  /\ callbacksOnce' = callbacksOnce

\* The first three statements of CallCalbacks (lines 293-297): the local copy
\* `callbacks` of the map (its list for eventName is all the loop reads), and
\* the clear of the live one-shot list.
CallCalbacksCopy(eventName, isOnce) ==
  /\ dispatch' = [active |-> TRUE, eventName |-> eventName, isOnce |-> isOnce,
                  callbacks |-> IF isOnce THEN callbacksOnce[eventName]
                                ELSE callbacks[eventName],
                  next |-> 1]
  /\ callbacksOnce' = IF isOnce THEN [callbacksOnce EXCEPT ![eventName] = <<>>]
                      ELSE callbacksOnce

\* EventsApi::SendEvent (lines 305-310) is called on the script thread and
\* enters its first CallCalbacks.
SendEvent(eventName) ==
  /\ ScriptIdle
  /\ executing' = {[op |-> "SendEvent", eventName |-> eventName]}
  /\ CallCalbacksCopy(eventName, FALSE)
  /\ inPass' = {}
  /\ last' = [op |-> "Start"]
  /\ UNCHANGED <<hookVars, pairVars, callbacks, regs, pc, eventNameRef, poolQueue,
                 taskQueue>>

\* One iteration of the loop of CallCalbacks (lines 299-301): f.Call(arguments),
\* where the callback does b.  An exception leaves CallCalbacks and SendEvent.
CallCallback(b) ==
  /\ dispatch.active
  /\ dispatch.next <= Len(dispatch.callbacks)
  /\ LET f == dispatch.callbacks[dispatch.next]
         r == IF b.do \in {"On", "Once"}
                THEN AddCallback(callbacks, callbacksOnce, b.eventName, Len(regs) + 1,
                                 b.do = "Once")
                ELSE [threw |-> b.do = "throw", callbacks |-> callbacks,
                      callbacksOnce |-> callbacksOnce]
         counted == [regs EXCEPT ![f].invoked = IF @ < 2 THEN @ + 1 ELSE @]
     IN /\ callbacks' = r.callbacks
        /\ callbacksOnce' = r.callbacksOnce
        /\ regs' = IF b.do \in {"On", "Once"}
                     THEN Append(counted,
                                 Registration(b.eventName, b.do = "Once",
                                              IF dispatch.isOnce THEN "once"
                                              ELSE "persistent"))
                   ELSE IF r.threw THEN PassEnded(counted)
                   ELSE counted
        /\ inPass' = IF b.do \in {"On", "Once"} THEN inPass \cup {Len(regs) + 1}
                     ELSE inPass
        /\ last' = [op |-> "Call", id |-> f, eventName |-> dispatch.eventName,
                    isOnce |-> dispatch.isOnce, samePass |-> f \in inPass,
                    threw |-> r.threw]
        /\ IF r.threw
             THEN /\ dispatch' = NoDispatch
                  /\ executing' = {w \in executing : w.op # "SendEvent"}
             ELSE /\ dispatch' = [dispatch EXCEPT !.next = @ + 1]
                  /\ UNCHANGED executing
  /\ UNCHANGED <<hookVars, pairVars, pc, eventNameRef, poolQueue, taskQueue>>

\* The first CallCalbacks of SendEvent returned: the second one,
\* CallCalbacks(eventName, arguments, true), is entered (line 309).
CallCalbacksOnce ==
  /\ dispatch.active
  /\ dispatch.next > Len(dispatch.callbacks)
  /\ ~dispatch.isOnce
  /\ CallCalbacksCopy(dispatch.eventName, TRUE)
  /\ UNCHANGED <<hookVars, pairVars, callbacks, regs, inPass, pc, eventNameRef,
                 poolQueue, taskQueue, executing, last>>

\* The second CallCalbacks returned and SendEvent returns.
SendEventReturn ==
  /\ dispatch.active
  /\ dispatch.next > Len(dispatch.callbacks)
  /\ dispatch.isOnce
  /\ dispatch' = NoDispatch
  /\ executing' = {w \in executing : w.op # "SendEvent"}
  /\ regs' = PassEnded(regs)
  /\ last' = [op |-> "SendEventReturn"]
  /\ UNCHANGED <<hookVars, pairVars, callbacks, callbacksOnce, inPass, pc,
                 eventNameRef, poolQueue, taskQueue>>

\* EventsApi::Clear as it would be if it reset the hooks and g.callbacks only.
ClearKeepsOnce ==
  /\ ScriptIdle
  /\ poolQueue = <<>>
  /\ \A i \in 1..Len(taskQueue) : taskQueue[i].kind # "HandleEnter"
  /\ handlers' = [h \in Hooks |-> <<>>]
  /\ inProgressThreads' = [h \in Hooks |-> {}]
  /\ callbacks' = EmptyCallbacks
  /\ regs' = [i \in DOMAIN regs |-> [regs[i] EXCEPT !.cleared = TRUE]]
  /\ last' = [op |-> "Clear",
              handlers |-> \E h \in Hooks : handlers[h] # <<>>,
              callbacks |-> \E n \in MapKeys : callbacks[n] # <<>>,
              callbacksOnce |-> \E n \in MapKeys : callbacksOnce[n] # <<>>]
  /\ UNCHANGED <<pairVars, pc, eventNameRef, poolQueue, taskQueue, executing, dispatch,
                 inPass, callbacksOnce>>

\* EventsApi::Clear (lines 312-315): g = {}.  The session reset is taken when
\* no call of a hook is in flight and no task refers to a hook: the closures
\* of lines 154 and 160 hold the Hook that the reset destroys.
Clear ==
  /\ ScriptIdle
  /\ poolQueue = <<>>
  /\ \A i \in 1..Len(taskQueue) : taskQueue[i].kind # "HandleEnter"
  /\ handlers' = [h \in Hooks |-> <<>>]
  /\ inProgressThreads' = [h \in Hooks |-> {}]
  /\ callbacks' = EmptyCallbacks
  /\ callbacksOnce' = EmptyCallbacks
  /\ regs' = [i \in DOMAIN regs |-> [regs[i] EXCEPT !.cleared = TRUE]]
  /\ last' = [op |-> "Clear",
              handlers |-> \E h \in Hooks : handlers[h] # <<>>,
              callbacks |-> \E n \in MapKeys : callbacks[n] # <<>>,
              callbacksOnce |-> \E n \in MapKeys : callbacksOnce[n] # <<>>]
  /\ UNCHANGED <<pairVars, pc, eventNameRef, poolQueue, taskQueue, executing, dispatch,
                 inPass>>

\* ------------------------------------------------------------- specification

\* The model's bounds are guards of the next-state relations, not of the
\* operations: the program has no such limits.
CanAdd(hook, max) == Len(handlers[hook]) < max
CanQueue == Len(taskQueue) < MaxTasks
CanRegister(max) == Len(regs) < max

\* --- SpecHook: the blocking hook under two native threads, with one event
\* name, handlers that match every call and callbacks that return or throw.
QuietEnter == [name : {<<"a">>}, write : {{}}, throws : BOOLEAN]

NextHook ==
  \/ \E t \in Threads : Enter(t, "sendAnimationEvent", 1, <<"a">>)
  \/ \E t \in Threads : Leave(t, "sendAnimationEvent", TRUE)
  \/ CanQueue /\ PoolRun
  \/ TaskRun
  \/ \E w \in executing : EnterF(w, QuietEnter)
  \/ \E w \in executing : LeaveF(w, LeaveBehaviours)
  \/ \E w \in executing : ThrowTask(w)
  \/ CanAdd("sendAnimationEvent", MaxHandlers)
       /\ HookAdd("sendAnimationEvent", None, None, None)
  \/ Clear

SpecHook == Init /\ [][NextHook]_vars

\* --- SpecNames: the blocking hook under one native thread, with two event
\* names, a handler filter that depends on the name, and enter callbacks that
\* rename the event and throw.
PairAddArgs ==
  { <<None, None, None>>,
    <<None, None, Some(<<"a">>)>>,
    <<None, None, Some(<<"a", "*", "b">>)>> }

RenamingEnter == [name : Names, write : {{}}, throws : BOOLEAN]

NextNames ==
  \/ \E eventName \in Names : Enter(1, "sendAnimationEvent", 1, eventName)
  \/ Leave(1, "sendAnimationEvent", TRUE)
  \/ CanQueue /\ PoolRun
  \/ TaskRun
  \/ \E w \in executing : EnterF(w, RenamingEnter)
  \/ \E w \in executing : LeaveF(w, LeaveBehaviours)
  \/ \E w \in executing : ThrowTask(w)
  \/ \E a \in PairAddArgs :
       CanAdd("sendAnimationEvent", MaxHandlers)
         /\ HookAdd("sendAnimationEvent", a[1], a[2], a[3])
  \/ Clear

SpecNames == Init /\ [][NextNames]_vars

\* --- SpecPair: as SpecNames, and the enter callbacks also write to storage
\* and Leave is called with either outcome.
NextPair ==
  \/ \E eventName \in Names : Enter(1, "sendAnimationEvent", 1, eventName)
  \/ \E succeeded \in BOOLEAN : Leave(1, "sendAnimationEvent", succeeded)
  \/ CanQueue /\ PoolRun
  \/ TaskRun
  \/ \E w \in executing : EnterF(w, EnterBehaviours)
  \/ \E w \in executing : LeaveF(w, LeaveBehaviours)
  \/ \E w \in executing : ThrowTask(w)
  \/ \E a \in PairAddArgs :
       CanAdd("sendAnimationEvent", MaxHandlers)
         /\ HookAdd("sendAnimationEvent", a[1], a[2], a[3])
  \/ Clear

SpecPair == Init /\ [][NextPair]_vars

\* --- SpecPapyrus: the fire-and-forget hook under one native thread, with
\* handlers that filter by selfId and by name, and enter callbacks that
\* rename the event.
ReturningEnter == [name : Names, write : {{}}, throws : {FALSE}]

NextPapyrus ==
  \/ \E selfId \in SelfIds, eventName \in Names :
       CanQueue /\ Enter(1, "sendPapyrusEvent", selfId, eventName)
  \/ Leave(1, "sendPapyrusEvent", TRUE)
  \/ TaskRun
  \/ \E w \in executing : HandleEnterTask(w, ReturningEnter)
  \/ \E a \in AddArgs :
       CanAdd("sendPapyrusEvent", MaxHandlers)
         /\ HookAdd("sendPapyrusEvent", a[1], a[2], a[3])
  \/ Clear

SpecPapyrus == Init /\ [][NextPapyrus]_vars

\* --- SpecRegistry: the callback registry alone.
NextRegistry ==
  \/ \E eventName \in EventInputs, isOnce \in BOOLEAN :
       CanRegister(MaxRegs) /\ OnOrOnce(eventName, isOnce)
  \/ \E eventName \in MapKeys : SendEvent(eventName)
  \/ \E b \in CallbackBehaviours :
       (b.do \in {"On", "Once"} => CanRegister(MaxRegs)) /\ CallCallback(b)
  \/ CallCalbacksOnce
  \/ SendEventReturn
  \/ Clear

SpecRegistry == Init /\ [][NextRegistry]_vars

\* --- Spec: both hooks, the registry and the executor together: thread 1
\* calls the blocking hook, thread 2 the fire-and-forget hook, and producers
\* call SendEvent; one event name, at most MaxShared handlers per hook and
\* registered callbacks, and callbacks that only return or throw.
MaxShared == 1

Next ==
  \/ Enter(1, "sendAnimationEvent", 1, <<"a">>)
  \/ CanQueue /\ Enter(2, "sendPapyrusEvent", 1, <<"a">>)
  \/ Leave(1, "sendAnimationEvent", TRUE)
  \/ Leave(2, "sendPapyrusEvent", TRUE)
  \/ CanQueue /\ PoolRun
  \/ TaskRun
  \/ \E w \in executing : EnterF(w, QuietEnter)
  \/ \E w \in executing : LeaveF(w, LeaveBehaviours)
  \/ \E w \in executing : ThrowTask(w)
  \/ \E w \in executing : HandleEnterTask(w, QuietEnter)
  \/ \E hook \in Hooks : CanAdd(hook, MaxShared) /\ HookAdd(hook, None, None, None)
  \/ CanRegister(MaxShared) /\ OnOrOnce("tick", TRUE)
  \/ SendEvent("tick")
  \/ \E do \in {"nothing", "throw"} : CallCallback([do |-> do, eventName |-> "tick"])
  \/ CallCalbacksOnce
  \/ SendEventReturn
  \/ Clear

Spec == Init /\ [][Next]_vars

\* --- SpecReset: Clear between registrations, Enters of the blocking hook
\* (each by a thread that is not in progress) and SendEvent, with callbacks
\* that only return.
CalmEnter == [name : {<<"a">>}, write : {{}}, throws : {FALSE}]

NextReset ==
  \/ 1 \notin inProgressThreads["sendAnimationEvent"]
       /\ Enter(1, "sendAnimationEvent", 1, <<"a">>)
  \/ PoolRun
  \/ \E w \in executing : EnterF(w, CalmEnter)
  \/ \E hook \in Hooks : CanAdd(hook, MaxShared) /\ HookAdd(hook, None, None, None)
  \/ \E isOnce \in BOOLEAN : CanRegister(MaxShared + 1) /\ OnOrOnce("tick", isOnce)
  \/ SendEvent("tick")
  \/ CallCallback([do |-> "nothing", eventName |-> "tick"])
  \/ CallCalbacksOnce
  \/ SendEventReturn
  \/ Clear

SpecReset == Init /\ [][NextReset]_vars

\* --- SpecFilter: the blocking hook under one native thread that pairs its
\* calls, with handlers whose filter is drawn from every combination of a
\* minimum of 5, a maximum of 10 and a pattern string, and Enter called with
\* ids on both sides of each bound and names shorter and longer than the
\* pattern fragments; at most MaxShared handlers (a hook.add that fails is
\* possible at any length of the list).
\* The strings scripts pass as args[4]: without '*', and with one '*' first
\* or last (and "*" alone).
FilterStrings ==
  { <<"a", "b">>,
    <<"*">>, <<"a", "*">>, <<"*", "b">>, <<"*", "a", "b">>, <<"a", "b", "*">> }

\* Those with one '*' inside, and with two.
MalformedStrings == { <<"a", "*", "b">>, <<"*", "*">>, <<"*", "a", "*">> }

\* args[2..4] of hook.add: every combination of bounds with the strings of
\* FilterStrings, and no bounds with those of MalformedStrings.
FilterArgs ==
  ({None, Some(5)} \X {None, Some(10)} \X ({None} \cup {Some(p) : p \in FilterStrings}))
    \cup ({None} \X {None} \X {Some(p) : p \in MalformedStrings})

FilterIds == {4, 5, 10, 11}

FilterNames == {<<"a">>, <<"a", "b">>, <<"b", "a">>}

\* The enter callbacks return and leave the name "ab" in the context.
FilterEnter == [name : {<<"a", "b">>}, write : {{}}, throws : {FALSE}]

FilterLeave == [throws : {FALSE}]

NextFilter ==
  \/ \E selfId \in FilterIds, eventName \in FilterNames :
       /\ 1 \notin inProgressThreads["sendAnimationEvent"]
       /\ Enter(1, "sendAnimationEvent", selfId, eventName)
  \/ 1 \in inProgressThreads["sendAnimationEvent"] /\ Leave(1, "sendAnimationEvent", TRUE)
  \/ PoolRun
  \/ \E w \in executing : EnterF(w, FilterEnter)
  \/ \E w \in executing : LeaveF(w, FilterLeave)
  \/ \E a \in FilterArgs :
       /\ (~a[3].has \/ Parse(a[3].val).ok) => CanAdd("sendAnimationEvent", MaxShared)
       /\ HookAdd("sendAnimationEvent", a[1], a[2], a[3])

SpecFilter == Init /\ [][NextFilter]_vars

\* --- SpecThreads: two native threads that each pair their Enter and Leave on
\* the blocking hook, thread t calling Enter with selfId t; handlers that
\* match every call, only selfId 2, or only the name "a"; enter callbacks
\* that rename the event to "b" and may write to storage, no callback throws,
\* and hook.add is called while no pair is open.
ThreadAddArgs ==
  { <<None, None, None>>,
    <<Some(2), None, None>>,
    <<None, None, Some(<<"a">>)>> }

WritingEnter == [name : {<<"b">>}, write : SUBSET StorageVals, throws : {FALSE}]

ReturningLeave == [throws : {FALSE}]

NextThreads ==
  \/ \E t \in Threads, eventName \in Names :
       /\ t \notin inProgressThreads["sendAnimationEvent"]
       /\ Enter(t, "sendAnimationEvent", t, eventName)
  \/ \E t \in Threads :
       /\ t \in inProgressThreads["sendAnimationEvent"]
       /\ Leave(t, "sendAnimationEvent", TRUE)
  \/ PoolRun
  \/ \E w \in executing : EnterF(w, WritingEnter)
  \/ \E w \in executing : LeaveF(w, ReturningLeave)
  \/ \E a \in ThreadAddArgs :
       /\ CanAdd("sendAnimationEvent", MaxHandlers)
       /\ \A t \in Threads : t \notin inProgressThreads["sendAnimationEvent"]
       /\ HookAdd("sendAnimationEvent", a[1], a[2], a[3])

SpecThreads == Init /\ [][NextThreads]_vars

\* ------------------------------------------------------------- properties

\* C1: a second Enter by a thread that is already in progress for a blocking
\* hook invokes no enter callback, hands exactly one failing task to the task
\* queue, leaves the thread in progress, and no Enter has left a native
\* thread with an exception.
C1_SecondEnterRejected ==
  (last.op = "Enter" /\ last.was) =>
    /\ last.calls = <<>>
    /\ last.tasks = 1
    /\ taskQueue # <<>> /\ taskQueue[Len(taskQueue)] = FailingTask
    /\ last.thread \in inProgressThreads[last.hook]
    /\ \A t \in Threads : pc[t] # "aborted"

\* A second Enter was rejected on a hook that has a handler to invoke.
C1_Witness ==
  /\ last.op = "Enter" /\ last.was
  /\ handlers[last.hook] # <<>>
  /\ pc[last.thread] = "idle"

\* C2: a Leave by a thread that is not in progress for a blocking hook invokes
\* no leave callback, changes neither the in-progress set nor any handler's
\* per-thread entry, hands exactly one failing task to the task queue, and
\* returns to the native thread.
C2_UnmatchedLeaveRejected ==
  [][\A w \in executing :
       (/\ w.op = "Leave"
        /\ w \notin executing'
        /\ w.owningThread \notin inProgressThreads[w.hook])
       => /\ last'.op = "Leave" /\ last'.calls = <<>>
          /\ inProgressThreads' = inProgressThreads
          /\ handlers' = handlers
          /\ taskQueue' = Append(taskQueue, FailingTask)
          /\ pc'[w.owningThread] = "idle"]_vars

\* A Leave was rejected while a handler still held an entry of the thread.
C2_Witness ==
  /\ last.op = "Leave" /\ ~last.was
  /\ \E i \in 1..Len(handlers[last.hook]) :
       last.thread \in DOMAIN handlers[last.hook][i].perThread

\* C3: whenever a thread is not inside an Enter or Leave call, it is in a
\* hook's in-progress set if and only if its last completed call on the hook
\* is an Enter.
C3_InProgressIffUnmatchedEnter ==
  \A h \in Hooks, t \in Threads :
    pc[t] = "idle" => (t \in inProgressThreads[h] <=> t \in entered[h])

\* The event name current when the loop of HandleEnter reaches handler i, as
\* the recorded calls tell it: the name the last earlier call left, or the
\* name Enter was called with.
NameAt(l, i) ==
  LET ks == {k \in 1..Len(l.calls) : l.calls[k].handler < i}
  IN IF ks = {} THEN l.nameIn ELSE l.calls[Cardinality(ks)].nameOut

\* C4: in a blocking Enter each handler is matched against, and receives as
\* its event-name property, the name left by the enter callbacks before it,
\* and the caller's eventName is the name read back after the last enter
\* callback that returned.
C4_EventNameChain ==
  (last.op = "Enter" /\ ~last.was) =>
    LET c == last.calls
        hs == handlers[last.hook]
        reached == IF c # <<>> /\ c[Len(c)].threw THEN c[Len(c)].handler ELSE Len(hs)
        invoked == {c[k].handler : k \in 1..Len(c)}
    IN /\ \A k \in 1..Len(c) : c[k].nameIn = NameAt(last, c[k].handler)
       /\ \A k \in 1..(Len(c) - 1) : c[k].handler < c[k + 1].handler
       /\ \A i \in 1..reached :
            i \in invoked <=> Matches(hs[i], last.selfId, NameAt(last, i))
       /\ last.nameOut = IF c = <<>> THEN last.nameIn
                         ELSE IF c[Len(c)].threw THEN c[Len(c)].nameIn
                         ELSE c[Len(c)].nameOut
       /\ pc[last.thread] = "idle" => eventNameRef[last.thread] = last.nameOut

\* Two handlers renamed the event in turn, and the second one matched only
\* the name the first one left.
C4_Witness ==
  /\ last.op = "Enter" /\ ~last.was
  /\ Len(last.calls) = 2
  /\ last.calls[1].nameOut # last.nameIn
  /\ ~Matches(handlers[last.hook][2], last.selfId, last.nameIn)
  /\ last.calls[2].nameOut # last.calls[2].nameIn
  /\ ~last.calls[2].threw
  /\ eventNameRef[last.thread] = last.calls[2].nameOut

\* C5: once the Leave that matches a thread's Enter has returned, no handler
\* of the hook holds a per-thread entry of that thread, whether the handler
\* matched at Enter or not (stated for a Leave in which nothing failed).
C5_NoEntryAfterLeave ==
  (last.op = "Leave" /\ last.was /\ last.cause = "none") =>
    \A i \in 1..Len(handlers[last.hook]) :
      last.thread \notin DOMAIN handlers[last.hook][i].perThread

\* C6: the storage of a handler that matched in an Enter is empty when its
\* enter callback starts; a leave callback sees in storage exactly what the
\* Enter of the same pair left there, and nothing of an earlier pair; and
\* after a Leave in which nothing failed the storage can no longer be reached
\* through the handler.
C6_StorageScopedToPair ==
  /\ (last.op = "Enter" /\ ~last.was) =>
       \A k \in 1..Len(last.calls) : last.calls[k].storageAtStart = {}
  /\ (last.op = "Leave" /\ last.was) =>
       LET t == last.thread
           hs == handlers[last.hook]
       IN /\ \A k \in 1..Len(last.calls) :
               last.calls[k].storage =
                 IF last.calls[k].handler \in DOMAIN pairEnter[t]
                   THEN pairEnter[t][last.calls[k].handler]
                   ELSE {}
          /\ last.cause = "none" =>
               \A i \in DOMAIN pairEnter[t] :
                 \/ t \notin DOMAIN hs[i].perThread
                 \/ hs[i].perThread[t].storage.type # "Object"

\* C9: every blocking Enter or Leave returns to the native thread, and hands
\* exactly one failing task to the task queue if its protocol failed (a
\* rejected call, a throwing callback, a missing per-thread entry) and none
\* if it did not.
C9_ReturnsAndReportsOnce ==
  /\ \A t \in Threads : pc[t] # "aborted"
  /\ last.op \in {"Enter", "Leave"} =>
       LET rejected == IF last.op = "Enter" THEN last.was ELSE ~last.was
           threw == \E k \in 1..Len(last.calls) : last.calls[k].threw
       IN /\ last.tasks = IF last.cause # "none" THEN 1 ELSE 0
          /\ (rejected \/ threw) => last.cause # "none"
          /\ last.cause = "none" =>
               \A i \in 1..Len(handlers[last.hook]) :
                 last.op = "Leave" =>
                   \/ last.thread \notin DOMAIN handlers[last.hook][i].perThread
                   \/ ~handlers[last.hook][i].perThread[last.thread].matchesCondition

\* A Leave failed on a handler without an entry of the thread, and returned.
C9_Witness ==
  /\ last.op = "Leave"
  /\ last.cause = "out_of_range"
  /\ last.tasks = 1
  /\ pc[last.thread] = "idle"

\* The one-shot callbacks now in the live list of some event name.
LiveOnce ==
  UNION {{callbacksOnce[n][k] : k \in 1..Len(callbacksOnce[n])} : n \in MapKeys}

\* C7 as stated: a callback registered with Once(name, cb) has been invoked
\* exactly once as soon as a SendEvent(name) that began after the
\* registration has dispatched its one-shot callbacks and ended, and is
\* never invoked more than once; a callback registered
\* with Once by a one-shot callback is not invoked in the pass it was
\* registered in.
C7_OnceExactlyOnce ==
  /\ \A id \in DOMAIN regs :
       regs[id].isOnce =>
         /\ regs[id].invoked <= 1
         /\ regs[id].passed => regs[id].invoked = 1
  /\ (last.op = "Call" /\ regs[last.id].isOnce /\ regs[last.id].by = "once")
       => ~last.samePass

\* C7 amended: a callback registered with Once is invoked at most once; while
\* it is in the live list it has not been invoked; the pass that took it from
\* the live list has invoked exactly once each callback of its one-shot
\* snapshot it has reached, and none of the others; a callback registered
\* with Once by a one-shot callback is not invoked in the pass it was
\* registered in and is in the live list while that pass lasts.
C7_OnceAtMostOnce ==
  /\ \A id \in DOMAIN regs :
       regs[id].isOnce =>
         /\ regs[id].invoked <= 1
         /\ id \in LiveOnce => regs[id].invoked = 0
  /\ (dispatch.active /\ dispatch.isOnce) =>
       /\ \A k \in 1..Len(dispatch.callbacks) :
            regs[dispatch.callbacks[k]].invoked = IF k < dispatch.next THEN 1 ELSE 0
       /\ \A id \in inPass :
            (regs[id].isOnce /\ regs[id].by = "once") => id \in LiveOnce
  /\ (last.op = "Call" /\ regs[last.id].isOnce /\ regs[last.id].by = "once")
       => ~last.samePass

\* A callback registered with Once by a one-shot callback was invoked by a
\* later pass.
C7_Witness ==
  \E id \in DOMAIN regs :
    /\ regs[id].isOnce /\ regs[id].by = "once"
    /\ regs[id].invoked = 1
    /\ regs[id].passed

\* C8: no callback registered with On or Once by a callback running inside a
\* SendEvent is invoked by that same SendEvent.
C8_NoneInvokedInSamePass ==
  last.op = "Call" => ~last.samePass

C11_FireAndForgetEnter ==
  [][\A t \in Threads, selfId \in SelfIds, eventName \in Names :
       Enter(t, "sendPapyrusEvent", selfId, eventName) =>
         /\ handlers' = handlers
         /\ inProgressThreads' = inProgressThreads
         /\ poolQueue' = poolQueue /\ executing' = executing /\ pc' = pc
         /\ IF \E i \in 1..Len(handlers["sendPapyrusEvent"]) :
                 Matches(handlers["sendPapyrusEvent"][i], selfId, eventName)
              THEN taskQueue' = Append(taskQueue,
                     [kind |-> "HandleEnter", hook |-> "sendPapyrusEvent",
                      owningThread |-> t, selfId |-> selfId, eventName |-> eventName])
              ELSE taskQueue' = taskQueue]_vars

\* An Enter found handlers registered, none of them matching, and added no
\* task.
C11_Witness ==
  /\ last.op = "EnterCall" /\ last.tasks = 0
  /\ Len(handlers[last.hook]) = 2
  /\ taskQueue = <<>>

\* C12: on the fire-and-forget hook no thread ever waits, is in the
\* in-progress set or causes a failing task; the caller's eventName changes
\* only by the caller's own Enter, never by an enter callback; and Leave
\* changes nothing.
C12_FireAndForgetFrame ==
  /\ [](/\ inProgressThreads["sendPapyrusEvent"] = {}
        /\ \A t \in Threads : pc[t] = "idle"
        /\ \A k \in 1..Len(taskQueue) : taskQueue[k].kind # "throw")
  /\ [][/\ \A t \in Threads :
             eventNameRef'[t] # eventNameRef[t] =>
               \E selfId \in SelfIds :
                 Enter(t, "sendPapyrusEvent", selfId, eventNameRef'[t])
        /\ \A t \in Threads, succeeded \in BOOLEAN :
             Leave(t, "sendPapyrusEvent", succeeded) => UNCHANGED vars]_vars

\* An enter callback of the fire-and-forget hook renamed the event, the
\* thread had an entry of an earlier Enter that no Leave removed, and the
\* caller still holds the name it passed.
C12_Witness ==
  /\ last.op = "Task" /\ last.kind = "HandleEnter"
  /\ Len(last.calls) = 2
  /\ last.calls[1].nameOut # last.calls[1].nameIn
  /\ eventNameRef[last.thread] = last.calls[1].nameIn
  /\ pc[last.thread] = "idle"
  /\ last.thread \notin inProgressThreads[last.hook]

\* The handlers the loop of HandleLeave for thread t reaches over hs, given
\* the leave callbacks c it invoked: up to the one whose callback threw, or
\* to the one before the first handler without an entry of t.
LeaveReached(hs, t, c) ==
  LET missing == {i \in 1..Len(hs) : t \notin DOMAIN hs[i].perThread}
  IN IF c # <<>> /\ c[Len(c)].threw THEN c[Len(c)].handler
     ELSE IF missing # {} THEN (CHOOSE m \in missing : \A x \in missing : m <= x) - 1
     ELSE Len(hs)

\* C13: hook.add appends, so the position in the list is the registration
\* order; the enter callbacks of an Enter and the leave callbacks of a Leave
\* are invoked in that order; an Enter records for each handler it reaches
\* whether it matched; and a Leave invokes, among the handlers it reaches,
\* exactly those whose recorded flag for the thread is true.
C13_RegistrationOrder ==
  /\ [](last.op \in {"Enter", "Leave"} =>
          \A k \in 1..(Len(last.calls) - 1) :
            last.calls[k].handler < last.calls[k + 1].handler)
  /\ []((last.op = "Enter" /\ ~last.was) =>
          LET c == last.calls
              hs == handlers[last.hook]
              reached == IF c # <<>> /\ c[Len(c)].threw THEN c[Len(c)].handler
                         ELSE Len(hs)
          IN \A i \in 1..reached :
               /\ last.thread \in DOMAIN hs[i].perThread
               /\ hs[i].perThread[last.thread].matchesCondition
                    <=> \E k \in 1..Len(c) : c[k].handler = i)
  /\ [][/\ \A h \in Hooks :
             (last'.op = "HookAdd" /\ handlers'[h] # handlers[h]) =>
               /\ Len(handlers'[h]) = Len(handlers[h]) + 1
               /\ SubSeq(handlers'[h], 1, Len(handlers[h])) = handlers[h]
        /\ \A w \in executing :
             (/\ w.op = "Leave"
              /\ w \notin executing'
              /\ w.owningThread \in inProgressThreads[w.hook])
             => LET hs == handlers[w.hook]
                    t == w.owningThread
                    c == last'.calls
                IN \A i \in 1..LeaveReached(hs, t, c) :
                     (\E k \in 1..Len(c) : c[k].handler = i)
                       <=> hs[i].perThread[t].matchesCondition]_vars

\* A Leave skipped the first handler, which had not matched, and invoked the
\* leave callback of the second.
C13_Witness ==
  /\ last.op = "Leave" /\ last.was
  /\ Len(handlers[last.hook]) = 2
  /\ Len(last.calls) = 1 /\ last.calls[1].handler = 2
  /\ last.thread \in DOMAIN handlers[last.hook][1].perThread
  /\ ~handlers[last.hook][1].perThread[last.thread].matchesCondition

\* C14: right after Clear every hook's handler list and both callback maps
\* are empty; they stay empty until hook.add, On or Once registers something;
\* an Enter on a hook without handlers invokes no enter callback; and no
\* callback registered before a Clear is dispatched or invoked after it.
C14_FullReset ==
  /\ [](last.op = "Clear" =>
          /\ \A h \in Hooks : handlers[h] = <<>>
          /\ \A n \in MapKeys : callbacks[n] = <<>> /\ callbacksOnce[n] = <<>>)
  /\ [](last.op = "Call" => ~regs[last.id].cleared)
  /\ []((last.op = "Enter" /\ handlers[last.hook] = <<>>) => last.calls = <<>>)
  /\ [](dispatch.active =>
          \A k \in 1..Len(dispatch.callbacks) : ~regs[dispatch.callbacks[k]].cleared)
  /\ [](\A id \in LiveOnce : ~regs[id].cleared)
  /\ [][/\ (\A h \in Hooks : handlers[h] = <<>>)
             => \/ \A h \in Hooks : handlers'[h] = <<>>
                \/ last'.op = "HookAdd"
        /\ (\A n \in MapKeys : callbacks[n] = <<>> /\ callbacksOnce[n] = <<>>)
             => \/ \A n \in MapKeys : callbacks'[n] = <<>> /\ callbacksOnce'[n] = <<>>
                \/ last'.op \in {"AddCallback", "Call"}]_vars

\* Clear was called while a handler, a persistent and a one-shot callback
\* were registered.
C14_Witness ==
  /\ last.op = "Clear"
  /\ last.handlers /\ last.callbacks /\ last.callbacksOnce
  /\ \E id \in DOMAIN regs : regs[id].cleared /\ regs[id].invoked = 0

\* C15: On(name, cb) and Once(name, cb) with a name outside the recognised
\* event categories fail at once and leave the persistent and the one-shot
\* map as they were; with a recognised name the new callback becomes the last
\* element of the persistent list (On) or of the one-shot list (Once) of that
\* name, the lists of the other names and the whole other map stay as they
\* were, and so do the hooks and their handlers.
C15_RegisterOrFail ==
  [][\A n \in EventInputs, o \in BOOLEAN :
       OnOrOnce(n, o) =>
         /\ handlers' = handlers /\ inProgressThreads' = inProgressThreads
         /\ IF n \notin events
              THEN /\ last'.threw
                   /\ callbacks' = callbacks /\ callbacksOnce' = callbacksOnce
                   /\ regs' = regs
              ELSE /\ ~last'.threw
                   /\ Len(regs') = Len(regs) + 1
                   /\ IF o
                        THEN /\ callbacks' = callbacks
                             /\ callbacksOnce'[n] = callbacksOnce[n] \o <<Len(regs')>>
                             /\ \A m \in MapKeys \ {n} : callbacksOnce'[m] = callbacksOnce[m]
                        ELSE /\ callbacksOnce' = callbacksOnce
                             /\ callbacks'[n] = callbacks[n] \o <<Len(regs')>>
                             /\ \A m \in MapKeys \ {n} : callbacks'[m] = callbacks[m]]_vars

\* An On or Once with an unknown name has just failed while both maps held
\* callbacks that earlier registrations had appended.
C15_Witness ==
  /\ last.op = "AddCallback" /\ last.threw /\ last.eventName \notin events
  /\ \E n \in MapKeys : callbacks[n] # <<>>
  /\ \E n \in MapKeys : callbacksOnce[n] # <<>>

\* name = fragment followed by something (a prefix), or something followed
\* by fragment (a suffix).
IsPrefix(fragment, name) ==
  \E k \in 0..Len(name) : name = fragment \o SubSeq(name, k + 1, Len(name))

IsSuffix(fragment, name) ==
  \E k \in 0..Len(name) : name = SubSeq(name, 1, k) \o fragment

PatternMatches(pattern, name) ==
  \/ pattern.type = "Exact" /\ name = pattern.str
  \/ pattern.type = "StartsWith" /\ IsPrefix(pattern.str, name)
  \/ pattern.type = "EndsWith" /\ IsSuffix(pattern.str, name)

\* C16: an Enter invokes the enter callback of a handler, and records a true
\* match flag for it, exactly when the id is not below the handler's minimum
\* (if it has one), not above its maximum (if it has one), and its pattern
\* (if it has one) matches the current name: Exact by equality, StartsWith
\* and EndsWith when the fragment is a prefix / suffix of the name, which a
\* shorter name never has. With min = 5 and max = 10, ids 4 and 11 never
\* match, and ids 5 and 10 match exactly when the pattern does.
C16_MatchesFilter ==
  (last.op = "Enter" /\ ~last.was) =>
    LET hs == handlers[last.hook]
        id == last.selfId
        invoked == {last.calls[k].handler : k \in 1..Len(last.calls)}
    IN \A i \in 1..Len(hs) :
         LET h == hs[i]
             name == NameAt(last, i)
             patternOk == ~h.pattern.has \/ PatternMatches(h.pattern.val, name)
         IN /\ i \in invoked <=> h.perThread[last.thread].matchesCondition
            /\ i \in invoked <=> /\ ~h.minSelfId.has \/ id >= h.minSelfId.val
                                 /\ ~h.maxSelfId.has \/ id <= h.maxSelfId.val
                                 /\ patternOk
            /\ (h.minSelfId = Some(5) /\ h.maxSelfId = Some(10)) =>
                 /\ id \in {4, 11} => i \notin invoked
                 /\ id \in {5, 10} => (i \in invoked <=> patternOk)
            /\ (h.pattern.has /\ h.pattern.val.type # "Exact"
                  /\ Len(name) < Len(h.pattern.val.str)) => i \notin invoked

\* An Enter with id 10 and a name the callback had not left matched a handler
\* with min 5, max 10 and a StartsWith pattern of one character.
C16_Witness ==
  /\ last.op = "Enter" /\ ~last.was /\ last.selfId = 10
  /\ last.nameIn = <<"a">>
  /\ handlers[last.hook] # <<>>
  /\ LET h == handlers[last.hook][1]
     IN /\ h.minSelfId = Some(5) /\ h.maxSelfId = Some(10)
        /\ h.pattern.has /\ h.pattern.val.type = "StartsWith"
        /\ h.pattern.val.str = <<"a">>
  /\ Len(last.calls) = 1 /\ last.calls[1].handler = 1

\* C17: hook.add with a pattern string p appends a handler whose pattern is
\* Exact(p) when p has no '*', EndsWith(p without its first character) when
\* p's only '*' is first, and StartsWith(p without its last character) when
\* p's only '*' is last; for every other p (two or more '*', or one strictly
\* inside) hook.add throws and the handler list stays as it was; so every
\* pattern in a handler list is one of the three kinds with a fragment free
\* of '*', and no Enter fails over a pattern.
C17_ParseAtRegistration ==
  /\ [][(last'.op = "HookAdd" /\ (last' # last \/ handlers' # handlers)) =>
          LET a == last'.args
              p == IF a[3].has THEN a[3].val ELSE <<>>
              stars == {i \in 1..Len(p) : p[i] = "*"}
              ok == ~a[3].has \/ stars = {} \/ stars = {1} \/ stars = {Len(p)}
              expected ==
                IF ~a[3].has THEN None
                ELSE IF stars = {} THEN Some([type |-> "Exact", str |-> p])
                ELSE IF stars = {1} THEN Some([type |-> "EndsWith", str |-> Tail(p)])
                ELSE Some([type |-> "StartsWith", str |-> SubSeq(p, 1, Len(p) - 1)])
          IN IF ok
               THEN /\ ~last'.threw
                    /\ handlers' =
                         [handlers EXCEPT ![last'.hook] =
                            @ \o <<[minSelfId |-> a[1], maxSelfId |-> a[2],
                                    pattern |-> expected, perThread |-> <<>>]>>]
               ELSE /\ last'.threw
                    /\ handlers' = handlers]_vars
  /\ [](\A hook \in Hooks : \A i \in 1..Len(handlers[hook]) :
          LET h == handlers[hook][i]
          IN h.pattern.has =>
               /\ h.pattern.val.type \in {"Exact", "StartsWith", "EndsWith"}
               /\ \A k \in 1..Len(h.pattern.val.str) : h.pattern.val.str[k] # "*")
  /\ [](last.op = "Enter" => last.cause \in {"none", "already processing"})

\* A hook.add with a malformed pattern has just failed on a hook that holds
\* a handler registered with "*b", and an Enter had dispatched to it.
C17_Witness ==
  /\ last.op = "HookAdd" /\ last.threw
  /\ handlers["sendAnimationEvent"] # <<>>
  /\ handlers["sendAnimationEvent"][1].pattern = Some([type |-> "EndsWith", str |-> <<"b">>])
  /\ 1 \in DOMAIN handlers["sendAnimationEvent"][1].perThread

\* C18: when two native threads interleave their Enter / Leave pairs on the
\* blocking hook, no call is rejected as a reentrancy error; a Leave of
\* thread T invokes the leave callbacks of exactly the handlers whose enter
\* callback T's Enter invoked, each with the selfId of T's Enter in its
\* context and the storage T's Enter left; and a unit of work of one thread
\* leaves every handler's per-thread entry (match flag, context, storage) of
\* the other thread as it was.
C18_ThreadsIsolated ==
  /\ [](last.op \in {"Enter", "Leave"} =>
          last.cause \notin {"already processing", "not processing"})
  /\ []((last.op = "Leave" /\ last.was) =>
          LET t == last.thread
              c == last.calls
          IN /\ {c[k].handler : k \in 1..Len(c)} = DOMAIN pairEnter[t]
             /\ \A k \in 1..Len(c) :
                  /\ c[k].storage = pairEnter[t][c[k].handler]
                  /\ c[k].context.props["selfId"] = t)
  /\ [][\A w \in executing :
          (w.op \in {"Enter", "Leave"} /\ w \notin executing') =>
            /\ Len(handlers'[w.hook]) = Len(handlers[w.hook])
            /\ \A t \in Threads \ {w.owningThread} :
                 /\ t \in inProgressThreads'[w.hook] <=> t \in inProgressThreads[w.hook]
                 /\ \A i \in 1..Len(handlers[w.hook]) :
                      LET old == handlers[w.hook][i].perThread
                          new == handlers'[w.hook][i].perThread
                      IN /\ t \in DOMAIN new <=> t \in DOMAIN old
                         /\ t \in DOMAIN old => new[t] = old[t]]_vars

\* Thread 2's Leave has invoked one leave callback, with the storage its own
\* Enter wrote, while thread 1 is inside a pair whose Enter matched the same
\* handler and left a different storage there.
C18_Witness ==
  /\ last.op = "Leave" /\ last.was /\ last.thread = 2
  /\ Len(last.calls) = 1 /\ last.calls[1].storage = {"x"}
  /\ 1 \in inProgressThreads[last.hook]
  /\ LET h == handlers[last.hook][last.calls[1].handler]
     IN /\ 1 \in DOMAIN h.perThread
        /\ h.perThread[1].matchesCondition
        /\ h.perThread[1].storage = [type |-> "Object", map |-> {}]
        /\ h.perThread[1].context.props["selfId"] = 1

\* C19: an Enter by a thread that is not in progress leaves it in progress
\* when it returns, whether or not an enter callback failed; a Leave by a
\* thread that is in progress leaves it not in progress when it returns,
\* whether or not a leave callback failed; and an Enter by a thread that is
\* not in progress is never rejected as "already processing".
C19_TransitionIgnoresFailure ==
  /\ []((last.op = "Enter" /\ ~last.was) =>
          /\ last.cause \in {"none", "callback"}
          /\ last.thread \in inProgressThreads[last.hook])
  /\ []((last.op = "Leave" /\ last.was) =>
          /\ last.cause \in {"none", "callback", "out_of_range"}
          /\ last.thread \notin inProgressThreads[last.hook])
  /\ [][\A w \in executing :
          (w.op = "Enter" /\ w \notin executing') =>
            (last'.cause = "already processing"
               <=> w.owningThread \in inProgressThreads[w.hook])]_vars

\* An Enter whose enter callback failed has left the thread in progress; it
\* was accepted after a Leave of the same thread whose leave callback had
\* failed (the handler's context still holds the property that Leave set).
C19_Witness ==
  /\ last.op = "Enter" /\ ~last.was /\ last.cause = "callback"
  /\ last.thread \in inProgressThreads[last.hook]
  /\ LET h == handlers[last.hook][1]
     IN /\ last.thread \in DOMAIN h.perThread
        /\ h.perThread[last.thread].context.type = "Object"
        /\ succeededVariableName(last.hook).has
        /\ succeededVariableName(last.hook).val
             \in DOMAIN h.perThread[last.thread].context.props

\* C20: a Leave by thread T invokes the leave callback of a handler only if
\* the Enter of T in the same pair invoked that handler's enter callback,
\* also when callbacks of this or an earlier pair failed.
C20_LeaveOnlyAfterEnter ==
  (last.op = "Leave" /\ last.was) =>
    \A k \in 1..Len(last.calls) :
      last.calls[k].handler \in DOMAIN pairEnter[last.thread]

====
